---- MODULE Spec2Model ----
(***************************************************************************)
(* Model of py-image/Matcher.py: the angle-indexed matching loop of        *)
(* Matcher.run() and the result file / panorama handoff of Matcher.write().*)
(* Strings that the code builds or takes apart (the dataset root, the      *)
(* candidate paths) are sequences of one-character strings, so that        *)
(* str.zfill, str.replace and int() are computed as Python computes them.  *)
(* The feature matchers (cv2) are an environment table: for every          *)
(* candidate file either the number of matches it yields or "file missing".*)
(* existed tells whether the destination of write() held a file before the *)
(* call; file.prev tells whether that earlier content is still in it.      *)
(***************************************************************************)
EXTENDS Integers, Sequences, FiniteSets, TLC

VARIABLES data, alg, entry, mode, score, existed, pc, i, matches, calls, ret, exc, file, panorama

vars == <<data, alg, entry, mode, score, existed, pc, i, matches, calls, ret, exc, file, panorama>>

(* ---------------------------------------------------------------- bounds *)
MaxScore == 2

(* ------------------------------------------------------ program constants *)
RangeStart == 0
RangeStop == 375
RangeStep == 15
ZfillWidth == 3

(* Marks a candidate whose file cv2.imread cannot read (imread gives None). *)
Missing == -1

(* ------------------------------------------------------------ characters *)
Digits == <<"0", "1", "2", "3", "4", "5", "6", "7", "8", "9">>

Digit(n) == Digits[n + 1]

IsDigit(c) == \E n \in 0..9 : Digit(n) = c

DigitVal(c) == CHOOSE n \in 0..9 : Digit(n) = c

AnglePrefix == <<"/", "a", "n", "g", "l", "e">>

JpgSuffix == <<".", "j", "p", "g">>

(* ---------------------------------------------------- Python str helpers *)
RECURSIVE Str(_)
Str(n) == IF n < 10 THEN <<Digit(n)>> ELSE Str(n \div 10) \o <<Digit(n % 10)>>

Zfill(s, w) == IF Len(s) >= w THEN s ELSE [k \in 1..(w - Len(s)) |-> "0"] \o s

RECURSIVE Replace(_, _)
Replace(s, old) ==
    IF Len(old) = 0 \/ Len(s) < Len(old) THEN s
    ELSE IF SubSeq(s, 1, Len(old)) = old
         THEN Replace(SubSeq(s, Len(old) + 1, Len(s)), old)
         ELSE <<Head(s)>> \o Replace(Tail(s), old)

IntOk(s) == Len(s) > 0 /\ \A k \in 1..Len(s) : IsDigit(s[k])

RECURSIVE IntVal(_)
IntVal(s) == IF Len(s) = 0 THEN 0
             ELSE 10 * IntVal(SubSeq(s, 1, Len(s) - 1)) + DigitVal(s[Len(s)])

(* ------------------------------------------------------------ run(): loop *)
HasNextEarly(a) == a < RangeStop - RangeStep

HasNext(a) == a < RangeStop

Angles == {a \in RangeStart..(RangeStop - 1) : (a - RangeStart) % RangeStep = 0}

ImagePathNoPad(root, a) == root \o AnglePrefix \o Str(a) \o JpgSuffix

ImagePath(root, a) == root \o AnglePrefix \o Zfill(Str(a), ZfillWidth) \o JpgSuffix

Upper(a) == CASE a = "sift" -> "SIFT" [] a = "surf" -> "SURF" [] OTHER -> a

AlgScorerAnyCase(a) == IF Upper(a) = "SIFT" THEN "SIFT" ELSE IF Upper(a) = "SURF" THEN "SURF" ELSE "ORB"

AlgScorer(a) == IF a = "SIFT" THEN "SIFT" ELSE IF a = "SURF" THEN "SURF" ELSE "ORB"

(* ------------------------------------------------------- run(): aggregate *)
(* sorted(matches, key=lambda x: x[1]): Python's sort is stable.            *)
RECURSIVE InsertAfterEqual(_, _)
InsertAfterEqual(s, m) ==
    IF Len(s) = 0 THEN <<m>>
    ELSE IF m[2] < Head(s)[2] THEN <<m>> \o s
         ELSE <<Head(s)>> \o InsertAfterEqual(Tail(s), m)

RECURSIVE InsertBeforeEqual(_, _)
InsertBeforeEqual(s, m) ==
    IF Len(s) = 0 THEN <<m>>
    ELSE IF m[2] <= Head(s)[2] THEN <<m>> \o s
         ELSE <<Head(s)>> \o InsertBeforeEqual(Tail(s), m)

RECURSIVE SortedUnstable(_)
SortedUnstable(ms) ==
    IF Len(ms) = 0 THEN <<>>
    ELSE InsertBeforeEqual(SortedUnstable(SubSeq(ms, 1, Len(ms) - 1)), ms[Len(ms)])

RECURSIVE Sorted(_)
Sorted(ms) ==
    IF Len(ms) = 0 THEN <<>>
    ELSE InsertAfterEqual(Sorted(SubSeq(ms, 1, Len(ms) - 1)), ms[Len(ms)])

RECURSIVE Sum(_)
Sum(ms) == IF Len(ms) = 0 THEN 0 ELSE ms[1][2] + Sum(Tail(ms))

(* A quotient 1.0*n/total is kept exact, as the pair <<n, total>>.          *)
ResultsByRank(ms, total) == [k \in 1..Len(ms) |-> <<Sorted(ms)[k][2], total>>]

Results(ms, total) == [k \in 1..Len(ms) |-> <<ms[k][2], total>>]

BestMatch(sm) == sm[Len(sm)]

(* --------------------------------------------------------------- write() *)
NoFile == [prev |-> FALSE, out |-> <<>>]

OpenFile(f, m) == IF m = "w" THEN NoFile ELSE f

ResolveText(path, root) == Replace(Replace(Replace(path, root), AnglePrefix), JpgSuffix)

NoRet == [set |-> FALSE, totalMatches |-> 0, results |-> <<>>, bestMatch |-> <<<<>>, 0>>]

NoPanorama == [set |-> FALSE, root |-> <<>>, angle |-> 0]

(* ---------------------------------------------------------------- inputs *)
Algs == {"ORB", "SIFT", "SURF", "sift", "surf", "HIST", ""}

Modes == {"w", "a"}

DataRoot == <<"d", "a", "t", "a">>

Roots == { DataRoot, <<>>, AnglePrefix, JpgSuffix, <<"1">>, <<"0">>, <<"5">>,
           <<"g">>, <<"e", "0">>, <<"s", "e", "t", ".", "j", "p", "g">> }

Scores == {Missing} \cup 0..MaxScore

Profile(base, a1, v1, a2, v2) ==
    [a \in Angles |-> IF a = a1 THEN v1 ELSE IF a = a2 THEN v2 ELSE base]

(* Score tables: a floor of 0 or 1 everywhere and two candidates set freely. *)
ScoreInputs ==
    { [entry |-> "run", alg |-> "ORB", data |-> DataRoot, mode |-> "w", prev |-> TRUE,
       score |-> Profile(b, a1, v1, a2, v2)] :
      b \in 0..1, a1 \in Angles, v1 \in Scores, a2 \in Angles, v2 \in Scores }

AlgInputs ==
    { [entry |-> "run", alg |-> x, data |-> DataRoot, mode |-> "w", prev |-> TRUE,
       score |-> Profile(1, RangeStart, 1, RangeStart, 1)] : x \in Algs }

WriteInputs ==
    { [entry |-> "write", alg |-> "SIFT", data |-> r, mode |-> m, prev |-> p,
       score |-> Profile(0, a1, v1, a1, v1)] :
      r \in Roots, m \in Modes, p \in BOOLEAN, a1 \in Angles, v1 \in {Missing, 0, 1} }

Inputs == ScoreInputs \cup AlgInputs \cup WriteInputs

(* ----------------------------------------------------------------- state *)
Init ==
    \E in \in Inputs :
        /\ data = in.data
        /\ alg = in.alg
        /\ entry = in.entry
        /\ mode = in.mode
        /\ score = in.score
        /\ existed = in.prev
        /\ file = [prev |-> in.prev, out |-> <<>>]
        /\ pc = IF in.entry = "write" THEN "open" ELSE "loop"
        /\ i = RangeStart
        /\ matches = <<>>
        /\ calls = <<>>
        /\ ret = NoRet
        /\ exc = "none"
        /\ panorama = NoPanorama

(* write(): file = open(filename, mode), then the call of self.run().       *)
WriteOpen ==
    /\ pc = "open"
    /\ \E ok \in BOOLEAN :
        IF ok
        THEN /\ file' = OpenFile(file, mode)
             /\ pc' = "loop"
             /\ exc' = exc
        ELSE /\ file' = file
             /\ pc' = "raised"
             /\ exc' = "OSError"
    /\ UNCHANGED <<data, alg, entry, mode, score, existed, i, matches, calls, ret, panorama>>

(* run(): one iteration of `for i in range(0, 375, 15)`.                    *)
ScoreCandidate ==
    /\ pc = "loop"
    /\ HasNext(i)
    /\ LET imagePath == ImagePath(data, i)
       IN /\ calls' = Append(calls, [scorer |-> AlgScorer(alg), path |-> imagePath])
          /\ IF score[i] = Missing
             THEN /\ exc' = "cv2.error"
                  /\ pc' = "raised"
                  /\ UNCHANGED <<matches, i>>
             ELSE /\ matches' = Append(matches, <<imagePath, score[i]>>)
                  /\ i' = i + RangeStep
                  /\ UNCHANGED <<exc, pc>>
    /\ UNCHANGED <<data, alg, entry, mode, score, existed, ret, file, panorama>>

(* run(): the range is exhausted, control leaves the loop.                  *)
LoopExit ==
    /\ pc = "loop"
    /\ ~HasNext(i)
    /\ pc' = "aggregate"
    /\ UNCHANGED <<data, alg, entry, mode, score, existed, i, matches, calls, ret, exc, file, panorama>>

(* run(): sort, total, the top-5 printout, results, bestMatch, return.      *)
Aggregate ==
    /\ pc = "aggregate"
    /\ LET sorted_matches == Sorted(matches)
           totalMatches == Sum(matches)
       IN IF totalMatches = 0
          THEN /\ exc' = "ZeroDivisionError"
               /\ pc' = "raised"
               /\ ret' = ret
          ELSE /\ ret' = [set |-> TRUE,
                          totalMatches |-> totalMatches,
                          results |-> Results(matches, totalMatches),
                          bestMatch |-> BestMatch(sorted_matches)]
               /\ pc' = IF entry = "write" THEN "finish" ELSE "done"
               /\ exc' = exc
    /\ UNCHANGED <<data, alg, entry, mode, score, existed, i, matches, calls, file, panorama>>

(* write(): the two lines of the result file, the angle, the Panorama call. *)
WriteFinish ==
    /\ pc = "finish"
    /\ file' = [file EXCEPT !.out = file.out \o <<<<ret.totalMatches>>, ret.results>>]
    /\ LET text == ResolveText(ret.bestMatch[1], data)
       IN IF IntOk(text)
          THEN /\ panorama' = [set |-> TRUE, root |-> data, angle |-> IntVal(text)]
               /\ pc' = "done"
               /\ exc' = exc
          ELSE /\ panorama' = panorama
               /\ pc' = "raised"
               /\ exc' = "ValueError"
    /\ UNCHANGED <<data, alg, entry, mode, score, existed, i, matches, calls, ret>>

Next == WriteOpen \/ ScoreCandidate \/ LoopExit \/ Aggregate \/ WriteFinish

Spec == Init /\ [][Next]_vars

TypeOK ==
    /\ pc \in {"open", "loop", "aggregate", "finish", "done", "raised"}
    /\ exc \in {"none", "OSError", "cv2.error", "ZeroDivisionError", "ValueError"}
    /\ i \in Angles \cup {RangeStop}
    /\ Len(matches) <= Cardinality(Angles)

(* ------------------------------------------------------------ properties *)
Terminated == pc \in {"done", "raised"}

TopScore == CHOOSE m \in {matches[k][2] : k \in 1..Len(matches)} :
                \A k \in 1..Len(matches) : matches[k][2] <= m

(* Position in enumeration order of the candidate that run() returned.      *)
BestIndex == CHOOSE k \in 1..Len(matches) : matches[k][1] = ret.bestMatch[1]

TiedAtTop == {k \in 1..Len(matches) : matches[k][2] = TopScore}

(* C1 (as stated): the returned bestMatch has the maximum score, and among  *)
(* several candidates with the maximum score it is the EARLIEST enumerated. *)
C1_BestIsEarliestOfTies ==
    ret.set => /\ ret.bestMatch[2] = TopScore
               /\ \A k \in TiedAtTop : BestIndex <= k

(* C1 (amended): the returned bestMatch has the maximum score, and among    *)
(* several candidates with the maximum score it is the LATEST enumerated.   *)
C1_BestIsLatestOfTies ==
    ret.set => /\ ret.bestMatch[2] = TopScore
               /\ ret.totalMatches > 0
               /\ \A k \in TiedAtTop : BestIndex >= k

C1_Witness ==
    /\ ret.set
    /\ Cardinality(TiedAtTop) = 2
    /\ TopScore = MaxScore

AllZero == \A a \in Angles : score[a] = 0

(* C2: when every candidate scores 0, run() never divides by the zero total *)
(* and ends in DegenerateResultError, with no result returned.              *)
C2_DegenerateResultError ==
    AllZero => /\ exc # "ZeroDivisionError"
               /\ ~ret.set
               /\ (Terminated /\ Len(calls) = Cardinality(Angles)) => exc = "DegenerateResultError"

(* C3: a candidate whose file is missing is recorded with score 0, the run  *)
(* is not aborted, and every other candidate is still scored.               *)
C3_MissingCandidateScoresZero ==
    /\ exc # "cv2.error"
    /\ pc \in {"aggregate", "finish", "done"} =>
          /\ Len(matches) = Cardinality(Angles)
          /\ \A k \in 1..Len(matches) :
                score[RangeStart + RangeStep * (k - 1)] = Missing => matches[k][2] = 0

(* C4: for every dataset root, the angle that write() extracts from the     *)
(* best match's path is the angle the path was built from.                  *)
C4_AngleRoundTrip ==
    (entry = "write" /\ ret.set /\ Terminated) =>
        /\ panorama.set
        /\ \A a \in Angles : ret.bestMatch[1] = ImagePath(data, a) => panorama.angle = a

ThreeDigits(a) == <<Digit(a \div 100), Digit((a \div 10) % 10), Digit(a % 10)>>

(* C5: run() enumerates exactly 25 candidates, angles 0, 15, ..., 360 in    *)
(* ascending order, each with path <root>/angle<NNN>.jpg, NNN three digits. *)
C5_Enumeration ==
    /\ \A k \in 1..Len(calls) :
          calls[k].path = data \o AnglePrefix \o ThreeDigits(15 * (k - 1)) \o JpgSuffix
    /\ Len(calls) <= 25
    /\ pc \in {"aggregate", "finish", "done"} => Len(calls) = 25

C5_Witness ==
    /\ pc = "aggregate"
    /\ calls[25].path = data \o AnglePrefix \o <<"3", "6", "0">> \o JpgSuffix

(* C6: the angle handed to Panorama is a multiple of 15 in 0..345, and it   *)
(* is handed over together with the dataset root.                           *)
C6_HandoffAngle ==
    panorama.set => /\ panorama.angle \in 0..345
                    /\ panorama.angle % 15 = 0
                    /\ panorama.root = data

RECURSIVE NumeratorSum(_)
NumeratorSum(rs) == IF Len(rs) = 0 THEN 0 ELSE rs[1][1] + NumeratorSum(Tail(rs))

(* C7: with total > 0 the distribution has one entry per candidate, entry k *)
(* is score_k / total in enumeration order, and the entries sum to 1.       *)
C7_Distribution ==
    ret.set => /\ Len(ret.results) = Cardinality(Angles)
               /\ ret.totalMatches > 0
               /\ \A k \in 1..Len(ret.results) :
                     ret.results[k] = <<score[RangeStart + RangeStep * (k - 1)], ret.totalMatches>>
               /\ NumeratorSum(ret.results) = ret.totalMatches

C7_Witness ==
    /\ ret.set
    /\ \E k \in 1..(Len(ret.results) - 1) : ret.results[k][1] > ret.results[k + 1][1]

(* C8: when write(filename, 'w') fails, a file that was at the destination  *)
(* before the call still has its previous content.                          *)
C8_PreviousContentKept ==
    (entry = "write" /\ mode = "w" /\ existed /\ exc # "none") =>
        /\ file.prev
        /\ Len(file.out) = 0

(* C9: exactly 'SIFT' selects the SIFT scorer, exactly 'SURF' the SURF      *)
(* scorer, every other string the ORB scorer, the same for every candidate. *)
C9_AlgorithmSelection ==
    \A k \in 1..Len(calls) :
        /\ alg = "SIFT" => calls[k].scorer = "SIFT"
        /\ alg = "SURF" => calls[k].scorer = "SURF"
        /\ alg \notin {"SIFT", "SURF"} => calls[k].scorer = "ORB"

C9_Witness ==
    /\ alg = "sift"
    /\ Len(calls) = Cardinality(Angles)
    /\ calls[Len(calls)].scorer = "ORB"

(* C10: every candidate is scored once, in enumeration order, and the       *)
(* aggregation starts only when all candidates have been scored.            *)
C10_ScoreAllThenAggregate ==
    /\ Len(calls) \in {Len(matches), Len(matches) + 1}
    /\ \A k \in 1..Len(matches) :
          LET a == RangeStart + RangeStep * (k - 1)
          IN /\ calls[k].path = ImagePath(data, a)
             /\ matches[k] = <<ImagePath(data, a), score[a]>>
    /\ (pc = "aggregate" \/ ret.set \/ exc = "ZeroDivisionError") =>
          Len(matches) = Cardinality(Angles)

C10_Witness ==
    /\ pc = "aggregate"
    /\ Len(matches) = Cardinality(Angles)
    /\ ret = NoRet

====
